---- MODULE Spec2Model ----
(***************************************************************************)
(* Model of scripts/fetch_cars.py: one run of main().                      *)
(*                                                                         *)
(* Text is a sequence of one-character strings.  Two characters that are   *)
(* not ASCII are written as the tokens "man" (the ten-thousand-yen unit)   *)
(* and "yen" (the yen unit); an URL origin is a single token.              *)
(* A JSON value is a record tagged by t:                                   *)
(*   null, bool(b), int(n), float(k, neg, ip, fd), str(s), list(e),        *)
(*   obj(kv) with kv a sequence of <<key, value>> pairs in document order. *)
(* An optional value (Python's None or a value) is <<>> or <<value>>.      *)
(***************************************************************************)
EXTENDS Integers, Sequences, FiniteSets, TLC

VARIABLES pc, args, html, listings, usedFallback, error, items, out

vars == <<pc, args, html, listings, usedFallback, error, items, out>>

----------------------------------------------------------------------------
(* Optional values *)

None == <<>>

Some(x) == <<x>>

----------------------------------------------------------------------------
(* Text *)

BASE_URL == <<"https://www.carsensor.net">>

OtherOrigin == <<"https://example.jp">>

Origins == {BASE_URL[1], OtherOrigin[1]}

Digits == <<"0", "1", "2", "3", "4", "5", "6", "7", "8", "9">>

IsDigit(c) == \E i \in 1..10 : Digits[i] = c

DigitVal(c) == CHOOSE i \in 0..9 : Digits[i + 1] = c

IsSpace(c) == c \in {" ", "\t"}

UpperLetters == <<"A", "B", "C", "D", "E", "F", "G", "H", "I", "J", "K", "L", "M",
                  "N", "O", "P", "Q", "R", "S", "T", "U", "V", "W", "X", "Y", "Z">>

LowerLetters == <<"a", "b", "c", "d", "e", "f", "g", "h", "i", "j", "k", "l", "m",
                  "n", "o", "p", "q", "r", "s", "t", "u", "v", "w", "x", "y", "z">>

LowerChar(c) ==
    IF \E i \in 1..26 : UpperLetters[i] = c
    THEN LowerLetters[CHOOSE i \in 1..26 : UpperLetters[i] = c]
    ELSE c

\* str.lower()
Lower(s) == [i \in 1..Len(s) |-> LowerChar(s[i])]

\* needle in hay
Contains(needle, hay) ==
    \E i \in 0..(Len(hay) - Len(needle)) : SubSeq(hay, i + 1, i + Len(needle)) = needle

Trimmed(s, keep) ==
    IF keep = {} THEN <<>>
    ELSE SubSeq(s, CHOOSE i \in keep : \A j \in keep : i <= j,
                   CHOOSE i \in keep : \A j \in keep : j <= i)

\* str.strip()
Strip(s) == Trimmed(s, {i \in 1..Len(s) : ~IsSpace(s[i])})

\* re.sub(r"\s+", " ", s)
RECURSIVE CollapseSpaces(_)
CollapseSpaces(s) ==
    IF s = <<>> THEN <<>>
    ELSE IF IsSpace(Head(s))
         THEN IF Len(s) > 1 /\ IsSpace(s[2])
              THEN CollapseSpaces(Tail(s))
              ELSE <<" ">> \o CollapseSpaces(Tail(s))
         ELSE <<Head(s)>> \o CollapseSpaces(Tail(s))

\* text.replace(",", "")
RemoveCommas(s) == SelectSeq(s, LAMBDA c : c # ",")

RECURSIVE NatToStr(_)
NatToStr(n) ==
    IF n < 10 THEN <<Digits[n + 1]>>
    ELSE NatToStr(n \div 10) \o <<Digits[(n % 10) + 1]>>

\* str(n) of an int
IntToStr(n) == IF n < 0 THEN <<"-">> \o NatToStr(-n) ELSE NatToStr(n)

RECURSIVE GroupNat(_)
GroupNat(n) ==
    IF n < 1000 THEN NatToStr(n)
    ELSE LET r == n % 1000
             pad == IF r < 10 THEN <<"0", "0">> ELSE IF r < 100 THEN <<"0">> ELSE <<>>
         IN  GroupNat(n \div 1000) \o <<",">> \o pad \o NatToStr(r)

\* f"{n:,}"
FormatGrouped(n) == IF n < 0 THEN <<"-">> \o GroupNat(-n) ELSE GroupNat(n)

RECURSIVE DigitsToNat(_)
DigitsToNat(s) ==
    IF s = <<>> THEN 0
    ELSE 10 * DigitsToNat(SubSeq(s, 1, Len(s) - 1)) + DigitVal(s[Len(s)])

RECURSIVE Pow10(_)
Pow10(k) == IF k = 0 THEN 1 ELSE 10 * Pow10(k - 1)

AllDigits(s) == \A i \in 1..Len(s) : IsDigit(s[i])

\* Index of the last character of the longest run of digits of s that starts at i
\* (i - 1 when s[i] is no digit).
DigitRunEnd(s, i) ==
    CHOOSE j \in (i - 1)..Len(s) :
        /\ \A k \in i..j : IsDigit(s[k])
        /\ (j = Len(s) \/ ~IsDigit(s[j + 1]))

\* First index at or after i that holds no whitespace (Len(s) + 1 when none).
SkipSpaces(s, i) ==
    CHOOSE j \in i..(Len(s) + 1) :
        /\ \A k \in i..(j - 1) : IsSpace(s[k])
        /\ (j = Len(s) + 1 \/ ~IsSpace(s[j]))

\* A join that leaves an empty reference empty.
urljoin_KeepsEmpty(url) ==
    IF url = <<>> THEN <<>>
    ELSE IF Head(url) \in Origins THEN url
    ELSE IF Head(url) = "/" THEN BASE_URL \o url
    ELSE BASE_URL \o <<"/">> \o url

\* urljoin(BASE_URL, url), for url empty, absolute, rooted at "/" or relative
\* (no dot segments, query-only or network-path references).
urljoin(url) ==
    IF url = <<>> THEN BASE_URL
    ELSE IF Head(url) \in Origins THEN url
    ELSE IF Head(url) = "/" THEN BASE_URL \o url
    ELSE BASE_URL \o <<"/">> \o url

----------------------------------------------------------------------------
(* JSON values *)

JNull == [t |-> "null"]

JBool(b) == [t |-> "bool", b |-> b]

JInt(n) == [t |-> "int", n |-> n]

\* A finite float ip.fd (fd its fraction digits) with its sign.
JDec(neg, ip, fd) == [t |-> "float", k |-> "fin", neg |-> neg, ip |-> ip, fd |-> fd]

\* The JSON literals Infinity, -Infinity and NaN, which json.loads accepts.
JInf(neg) == [t |-> "float", k |-> "inf", neg |-> neg, ip |-> 0, fd |-> <<>>]

JNaN == [t |-> "float", k |-> "nan", neg |-> FALSE, ip |-> 0, fd |-> <<>>]

JStr(s) == [t |-> "str", s |-> s]

JList(e) == [t |-> "list", e |-> e]

JObj(kv) == [t |-> "obj", kv |-> kv]

IsDict(v) == v.t = "obj"

IsList(v) == v.t = "list"

\* key in d
Has(d, key) == \E i \in 1..Len(d.kv) : d.kv[i][1] = key

\* d.get(key, default)
GetOr(d, key, default) ==
    IF Has(d, key)
    THEN d.kv[CHOOSE i \in 1..Len(d.kv) :
                 /\ d.kv[i][1] = key
                 /\ \A j \in (i + 1)..Len(d.kv) : d.kv[j][1] # key][2]
    ELSE default

\* d.get(key)
Get(d, key) == GetOr(d, key, JNull)

\* bool(v)
Truthy(v) ==
    CASE v.t = "null" -> FALSE
      [] v.t = "bool" -> v.b
      [] v.t = "int" -> v.n # 0
      [] v.t = "float" -> ~(v.k = "fin" /\ v.ip = 0 /\ DigitsToNat(v.fd) = 0)
      [] v.t = "str" -> v.s # <<>>
      [] v.t = "list" -> v.e # <<>>
      [] v.t = "obj" -> v.kv # <<>>

\* a or b
Or(a, b) == IF Truthy(a) THEN a ELSE b

FloatToStr(v) ==
    CASE v.k = "nan" -> <<"n", "a", "n">>
      [] v.k = "inf" -> (IF v.neg THEN <<"-">> ELSE <<>>) \o <<"i", "n", "f">>
      [] v.k = "fin" -> (IF v.neg THEN <<"-">> ELSE <<>>) \o NatToStr(v.ip) \o <<".">> \o v.fd

RECURSIVE Repr(_)
RECURSIVE JoinRepr(_)
RECURSIVE JoinPairs(_)

\* repr(v)
Repr(v) ==
    CASE v.t = "null" -> <<"N", "o", "n", "e">>
      [] v.t = "bool" -> IF v.b THEN <<"T", "r", "u", "e">> ELSE <<"F", "a", "l", "s", "e">>
      [] v.t = "int" -> IntToStr(v.n)
      [] v.t = "float" -> FloatToStr(v)
      [] v.t = "str" -> <<"'">> \o v.s \o <<"'">>
      [] v.t = "list" -> <<"[">> \o JoinRepr(v.e) \o <<"]">>
      [] v.t = "obj" -> <<"{">> \o JoinPairs(v.kv) \o <<"}">>

JoinRepr(e) ==
    IF e = <<>> THEN <<>>
    ELSE IF Len(e) = 1 THEN Repr(e[1])
    ELSE Repr(e[1]) \o <<",", " ">> \o JoinRepr(Tail(e))

JoinPairs(kv) ==
    IF kv = <<>> THEN <<>>
    ELSE LET one == <<"'", kv[1][1], "'", ":", " ">> \o Repr(kv[1][2])
         IN  IF Len(kv) = 1 THEN one ELSE one \o <<",", " ">> \o JoinPairs(Tail(kv))

\* str(v)
PyStr(v) == IF v.t = "str" THEN v.s ELSE Repr(v)

----------------------------------------------------------------------------
(* Exceptions: a raised exception is Some([type, msg]); str(exc) is msg. *)

NoExc == None

TypeName(v) ==
    CASE v.t = "null" -> "NoneType"
      [] v.t = "bool" -> "bool"
      [] v.t = "int" -> "int"
      [] v.t = "float" -> "float"
      [] v.t = "str" -> "str"
      [] v.t = "list" -> "list"
      [] v.t = "obj" -> "dict"

\* v.get(...) on a value that is no dict
AttributeError(v) ==
    Some([type |-> "AttributeError",
          msg |-> <<"'", TypeName(v), "' object has no attribute 'get'">>])

OverflowError ==
    Some([type |-> "OverflowError", msg |-> <<"cannot convert float infinity to integer">>])

\* The fetch fails: urlopen or resp.read() raises.
FetchErrors ==
    {Some([type |-> "URLError", msg |-> <<"<urlopen error timed out>">>]),
     Some([type |-> "TimeoutError", msg |-> <<"The read operation timed out">>])}

----------------------------------------------------------------------------
(* Prices *)

\* float(body) of an unsigned body, then int(...) with the sign neg.
IntOfUnsigned(body, neg, j) ==
    IF Lower(body) \in {<<"i", "n", "f">>, <<"i", "n", "f", "i", "n", "i", "t", "y">>}
    THEN [raised |-> "OverflowError", v |-> 0]
    ELSE IF /\ Lower(body) # <<"n", "a", "n">>
            /\ \/ j = Len(body) /\ j > 0
               \/ /\ j < Len(body)
                  /\ body[j + 1] = "."
                  /\ AllDigits(SubSeq(body, j + 2, Len(body)))
                  /\ (j > 0 \/ j + 1 < Len(body))
    THEN [raised |-> "", v |-> IF neg THEN -DigitsToNat(SubSeq(body, 1, j))
                               ELSE DigitsToNat(SubSeq(body, 1, j))]
    ELSE [raised |-> "ValueError", v |-> 0]

IntOfStripped(t) ==
    IF t # <<>> /\ Head(t) \in {"+", "-"}
    THEN IntOfUnsigned(Tail(t), Head(t) = "-", DigitRunEnd(Tail(t), 1))
    ELSE IntOfUnsigned(t, FALSE, DigitRunEnd(t, 1))

\* int(float(s)) for s without exponent or underscores:
\* [raised |-> "" | "ValueError" | "OverflowError", v |-> the integer].
IntOfFloatStr(s) == IntOfStripped(Strip(s))

\* <man><yen> after optional whitespace from k + 1 on
ManUnitAt(s, m) == m + 1 <= Len(s) /\ s[m] = "man" /\ s[m + 1] = "yen"

ManValue(ipd, fd) ==
    DigitsToNat(ipd) * 10000 + (DigitsToNat(fd) * 10000) \div Pow10(Len(fd))

ManMatchFrom(s, i, j) ==
    IF j + 2 <= Len(s) /\ s[j + 1] = "." /\ IsDigit(s[j + 2])
    THEN IF ManUnitAt(s, SkipSpaces(s, DigitRunEnd(s, j + 2) + 1))
         THEN Some(ManValue(SubSeq(s, i, j), SubSeq(s, j + 2, DigitRunEnd(s, j + 2))))
         ELSE None
    ELSE IF ManUnitAt(s, SkipSpaces(s, j + 1))
         THEN Some(ManValue(SubSeq(s, i, j), <<>>))
         ELSE None

\* re.match at i of ([0-9]+(?:\.[0-9]+)?)\s*<man><yen>: Some(int(float(group) * 10000)).
ManMatchAt(s, i) ==
    IF i <= Len(s) /\ IsDigit(s[i]) THEN ManMatchFrom(s, i, DigitRunEnd(s, i)) ELSE None

YenMatchFrom(s, i, j, m) ==
    IF m <= Len(s) /\ s[m] = "yen" THEN Some(DigitsToNat(SubSeq(s, i, j))) ELSE None

\* re.match at i of ([0-9]+)\s*<yen>: Some(int(group)).
YenMatchAt(s, i) ==
    IF i <= Len(s) /\ IsDigit(s[i])
    THEN YenMatchFrom(s, i, DigitRunEnd(s, i), SkipSpaces(s, DigitRunEnd(s, i) + 1))
    ELSE None

Least(S) == CHOOSE i \in S : \A j \in S : i <= j

Searched(cleaned, man, yen) ==
    IF man # {} THEN ManMatchAt(cleaned, Least(man))
    ELSE IF yen # {} THEN YenMatchAt(cleaned, Least(yen))
    ELSE None

SearchIn(cleaned) ==
    Searched(cleaned,
             {i \in 1..Len(cleaned) : ManMatchAt(cleaned, i) # None},
             {i \in 1..Len(cleaned) : YenMatchAt(cleaned, i) # None})

normalize_price(text) == SearchIn(RemoveCommas(text))

----------------------------------------------------------------------------
(* Listings *)

Listing(title, price_yen, price_label, location, image_url, detail_url) ==
    [title |-> title, price_yen |-> price_yen, price_label |-> price_label,
     location |-> location, image_url |-> image_url, detail_url |-> detail_url,
     source |-> <<"carsensor.net">>]

\* price_label, lines 110-113
PriceLabel(price, price_currency, price_yen) ==
    IF price_yen # None
    THEN FormatGrouped(price_yen[1]) \o <<" ", "yen">>
    ELSE Strip(PyStr(price) \o <<" ">> \o PyStr(Or(price_currency, JStr(<<>>))))

Priced(price, price_currency, price_yen) ==
    [raised |-> NoExc, price_yen |-> price_yen,
     price_label |-> PriceLabel(price, price_currency, price_yen)]

\* try: int(float(str(price))) except ValueError: normalize_price(str(price))
Converted(price, price_currency, conv) ==
    IF conv.raised = "OverflowError"
    THEN [raised |-> OverflowError, price_yen |-> None, price_label |-> <<>>]
    ELSE IF conv.raised = "ValueError"
    THEN Priced(price, price_currency, normalize_price(PyStr(price)))
    ELSE Priced(price, price_currency, Some(conv.v))

PriceFrom(price, price_currency) ==
    IF price.t = "null"
    THEN [raised |-> NoExc, price_yen |-> None, price_label |-> <<>>]
    ELSE Converted(price, price_currency, IntOfFloatStr(PyStr(price)))

\* offers.price to price_yen and price_label:
\* [raised |-> NoExc or the exception, price_yen |-> ..., price_label |-> ...].
PriceOf(offers) == PriceFrom(Get(offers, "price"), Get(offers, "priceCurrency"))

RECURSIVE JoinValues(_)
\* " ".join(str(v) for v in area.values() if v)
JoinValues(kv) ==
    IF kv = <<>> THEN <<>>
    ELSE IF ~Truthy(kv[1][2]) THEN JoinValues(Tail(kv))
    ELSE IF \E i \in 2..Len(kv) : Truthy(kv[i][2])
    THEN PyStr(kv[1][2]) \o <<" ">> \o JoinValues(Tail(kv))
    ELSE PyStr(kv[1][2])

AreaText(area) == IF IsDict(area) THEN JoinValues(area.kv) ELSE PyStr(area)

LocationOf(item) ==
    AreaText(Or(Or(Get(item, "areaServed"), Get(item, "address")), JStr(<<>>)))

ImageUrl(image) ==
    IF IsList(image)
    THEN IF image.e # <<>> THEN urljoin(PyStr(image.e[1])) ELSE <<>>
    ELSE urljoin(PyStr(Or(image, JStr(<<>>))))

ImageOf(item) == ImageUrl(Get(item, "image"))

DetailUrlOf(item) == urljoin(PyStr(Or(Get(item, "url"), JStr(<<>>))))

OffersOf(item) == IF IsDict(Get(item, "offers")) THEN Get(item, "offers") ELSE JObj(<<>>)

TitleOf(item) == Strip(PyStr(GetOr(item, "name", JStr(<<>>))))

\* A loop body without the check of the title.
ItemListing_KeepsUntitled(item, title, p) ==
    IF p.raised # NoExc
    THEN [raised |-> p.raised, skip |-> TRUE, listing |-> None]
    ELSE [raised |-> NoExc, skip |-> FALSE,
          listing |-> Some(Listing(title, p.price_yen, p.price_label, LocationOf(item),
                                   ImageOf(item), DetailUrlOf(item)))]

ItemListing(item, title, p) ==
    IF title = <<>>
    THEN [raised |-> NoExc, skip |-> TRUE, listing |-> None]
    ELSE IF p.raised # NoExc
    THEN [raised |-> p.raised, skip |-> TRUE, listing |-> None]
    ELSE [raised |-> NoExc, skip |-> FALSE,
          listing |-> Some(Listing(title, p.price_yen, p.price_label, LocationOf(item),
                                   ImageOf(item), DetailUrlOf(item)))]

\* One pass of the loop over the candidates:
\* [raised |-> NoExc or the exception, skip |-> the candidate is dropped, listing |-> ...].
ItemResult(item) ==
    IF ~IsDict(item)
    THEN [raised |-> AttributeError(item), skip |-> TRUE, listing |-> None]
    ELSE ItemListing(item, TitleOf(item), PriceOf(OffersOf(item)))

Unwrapped(dicts) == [i \in 1..Len(dicts) |-> GetOr(dicts[i], "item", dicts[i])]

\* The candidates of one decoded block.
Candidates(data) ==
    IF IsDict(data)
    THEN IF Has(data, "itemListElement") /\ IsList(Get(data, "itemListElement"))
         THEN Unwrapped(SelectSeq(Get(data, "itemListElement").e, IsDict))
         ELSE <<data>>
    ELSE IF IsList(data) THEN SelectSeq(data.e, IsDict)
    ELSE <<>>

RECURSIVE ParseItems(_, _)
ItemsStep(cands, acc, r) ==
    IF r.raised # NoExc THEN [raised |-> r.raised, listings |-> <<>>]
    ELSE ParseItems(Tail(cands), IF r.skip THEN acc ELSE acc \o r.listing)

\* The loop over the candidates, appending to the listings acc.
ParseItems(cands, acc) ==
    IF cands = <<>> THEN [raised |-> NoExc, listings |-> acc]
    ELSE ItemsStep(cands, acc, ItemResult(Head(cands)))

RECURSIVE ParseBlocks(_, _)
BlocksStep(blocks, r) ==
    IF r.raised # NoExc THEN r ELSE ParseBlocks(Tail(blocks), r.listings)

\* A loop that ends at the first block that fails to decode.
ParseBlocks_StopsAtBadBlock(blocks, acc) ==
    IF blocks = <<>> THEN [raised |-> NoExc, listings |-> acc]
    ELSE IF ~Head(blocks).decodes THEN [raised |-> NoExc, listings |-> acc]
    ELSE BlocksStep(blocks, ParseItems(Candidates(Head(blocks).data), acc))

\* The loop over parser.blocks; a block is [decodes |-> json.loads succeeded, data |-> its value].
ParseBlocks(blocks, acc) ==
    IF blocks = <<>> THEN [raised |-> NoExc, listings |-> acc]
    ELSE IF ~Head(blocks).decodes THEN ParseBlocks(Tail(blocks), acc)
    ELSE BlocksStep(blocks, ParseItems(Candidates(Head(blocks).data), acc))

\* [raised |-> NoExc or the exception raised, listings |-> the list returned]
parse_json_ld(blocks) == ParseBlocks(blocks, <<>>)

FallbackCap == 60

\* title = re.sub(r"\s+", " ", match.group("title")).strip()
MatchTitle(m) == Strip(CollapseSpaces(m.title))

MatchListing(m) == Listing(MatchTitle(m), None, <<>>, <<>>, <<>>, urljoin(m.url))

\* The loop's break: nothing is appended once the list holds FallbackCap listings.
Capped(ls) == IF Len(ls) >= FallbackCap THEN SubSeq(ls, 1, FallbackCap) ELSE ls

Listed(ms) == [i \in 1..Len(ms) |-> MatchListing(ms[i])]

\* The loop over pattern.finditer(html), a match being [url |-> ..., title |-> ...]:
\* the matches with an empty title are passed over, the others appended in order.
parse_fallback_html(matches) ==
    Capped(Listed(SelectSeq(matches, LAMBDA m : MatchTitle(m) # <<>>)))

----------------------------------------------------------------------------
(* Deduplication (scrape) and filters *)

\* item.detail_url or f"{item.title}-{item.price_label}-{item.location}"
DedupKey(item) ==
    IF item.detail_url # <<>> THEN item.detail_url
    ELSE item.title \o <<"-">> \o item.price_label \o <<"-">> \o item.location

\* A list in place of the dict: every item is appended.
DictSet_AlwaysAppends(uniq, key, item) == Append(uniq, <<key, item>>)

\* The first item of a key is kept.
DictSet_KeepsFirst(uniq, key, item) ==
    IF \E i \in 1..Len(uniq) : uniq[i][1] = key
    THEN uniq
    ELSE Append(uniq, <<key, item>>)

\* uniq[key] = item, uniq a dict kept as <<key, item>> pairs in insertion order
DictSet(uniq, key, item) ==
    IF \E i \in 1..Len(uniq) : uniq[i][1] = key
    THEN [i \in 1..Len(uniq) |-> IF uniq[i][1] = key THEN <<key, item>> ELSE uniq[i]]
    ELSE Append(uniq, <<key, item>>)

RECURSIVE DedupRange(_, _, _, _)
\* The rest of the loop, entered once uniq, the dict after the items before a, is
\* known.
ThenRange(ls, a, b, uniq) == IF Len(uniq) >= 0 THEN DedupRange(ls, a, b, uniq) ELSE uniq

\* for item in listings[a..b]: uniq[key] = item  (the range is cut in two halves,
\* the first folded before the second, which keeps the evaluation shallow)
DedupRange(ls, a, b, uniq) ==
    IF a > b THEN uniq
    ELSE IF a = b THEN DictSet(uniq, DedupKey(ls[a]), ls[a])
    ELSE ThenRange(ls, (a + b) \div 2 + 1, b, DedupRange(ls, a, (a + b) \div 2, uniq))

DedupLoop(ls, uniq) == DedupRange(ls, 1, Len(ls), uniq)

Values(uniq) == [i \in 1..Len(uniq) |-> uniq[i][2]]

\* list(uniq.values())
Dedup(ls) == Values(DedupLoop(ls, <<>>))

\* A strict comparison with the threshold.
PriceKept_Strict(item, max_price) ==
    item.price_yen = None \/ item.price_yen[1] < max_price[1]

PriceKept(item, max_price) == item.price_yen = None \/ item.price_yen[1] <= max_price[1]

RegionKept(item, region_kw) == Contains(region_kw, Lower(item.location))

ByPrice(ls, max_price) ==
    IF max_price # None
    THEN SelectSeq(ls, LAMBDA item : PriceKept(item, max_price))
    ELSE ls

ByRegion(ls, region_keyword) ==
    IF region_keyword # None /\ region_keyword[1] # <<>>
    THEN SelectSeq(ls, LAMBDA item : RegionKept(item, Lower(region_keyword[1])))
    ELSE ls

apply_filters(ls, max_price, region_keyword) ==
    ByRegion(ByPrice(ls, max_price), region_keyword)

\* The document main() writes (generated_at, source and the fixed query tags left out).
Payload ==
    [query |-> [max_price |-> args.max_price, region |-> args.region],
     error |-> error,
     count |-> Len(items),
     items |-> items]

----------------------------------------------------------------------------
(* Inputs: the command line and what the fetched page holds *)

MaxBlocks == 2

MaxElems == 3

ExtraAnchors == 1

BoundedSeq(S, n) == UNION {[1..k -> S] : k \in 0..n}

PriceLimit == 1000000

\* --max-price and --region as parsed: each absent or given, the region also empty.
ArgInputs ==
    {[max_price |-> None, region |-> None],
     [max_price |-> Some(PriceLimit), region |-> Some(<<>>)],
     [max_price |-> None, region |-> Some(<<"T", "O", "K">>)],
     [max_price |-> Some(PriceLimit), region |-> Some(<<"T", "O", "K">>)]}

NV == <<"N", "-", "V", "A", "N">>

Fun == <<"F", "u", "n">>

Tokyo == <<"T", "o", "k", "y", "o">>

DetailPath(n) == <<"/", "usedcar", "/", "detail", "/">> \o NatToStr(n)

Offers(price) == JObj(<< <<"price", price>>, <<"priceCurrency", JStr(<<"J", "P", "Y">>)>> >>)

cA == JObj(<< <<"name", JStr(NV)>>, <<"url", JStr(DetailPath(1))>>,
              <<"offers", Offers(JInt(1500000))>>, <<"areaServed", JStr(Tokyo)>> >>)

cB == JObj(<< <<"name", JStr(<<" ">> \o Fun \o <<"\t">>)>>, <<"url", JStr(DetailPath(2))>>,
              <<"offers", JObj(<< <<"price", JStr(<<"9", "8", ".", "5", "man", "yen">>)>> >>)>>,
              <<"address", JObj(<< <<"addressRegion", JStr(<<"O", "S", "A", "K", "A">>)>>,
                                   <<"postalCode", JNull>>,
                                   <<"addressLocality", JStr(<<"K", "i", "t", "a">>)>> >>)>>,
              <<"image", JList(<<JStr(<<"i", ".", "j", "p", "g">>)>>)>> >>)

cC == JObj(<< <<"name", JStr(NV)>>, <<"offers", Offers(JInt(PriceLimit))>>,
              <<"areaServed", JStr(<<"t", "o", "k", "y", "o", " ", "t", "o">>)>> >>)

cD == JObj(<< <<"name", JStr(Fun)>>, <<"url", JStr(<<>>)>>, <<"offers", JStr(<<"n", "o">>)>>,
              <<"address", JStr(<<"T", "O", "K", "Y", "O">>)>>, <<"image", JList(<<>>)>> >>)

cE == JObj(<< <<"name", JStr(<<" ", "\t">>)>>, <<"url", JStr(DetailPath(2))>> >>)

cF == JObj(<< <<"name", JStr(Fun)>>, <<"url", JStr(BASE_URL)>>,
              <<"offers", Offers(JInt(-5))>>, <<"areaServed", JStr(<<>>)>>,
              <<"address", JStr(<<"O", "t", "a", " ">> \o Tokyo)>> >>)

DedupCandidates == {cA, cB, cC, cD, cF}

Undecodable == [decodes |-> FALSE, data |-> JNull]

Block(data) == [decodes |-> TRUE, data |-> data]

ItemList(elems) == JObj(<< <<"@type", JStr(<<"L">>)>>, <<"itemListElement", JList(elems)>> >>)

Wrap(v) == JObj(<< <<"position", JInt(1)>>, <<"item", v>> >>)

NoName == JObj(<< <<"url", JStr(DetailPath(4))>> >>)

ShapeBlocks ==
    {Undecodable,
     Block(JInt(7)),
     Block(cA),
     Block(JObj(<< <<"name", JStr(NV)>>, <<"itemListElement", JStr(<<"x">>)>> >>)),
     Block(JList(<<cC, JStr(<<"x">>), NoName, cB>>)),
     Block(ItemList(<<Wrap(cA), cB>>)),
     Block(ItemList(<<JStr(<<"x">>), Wrap(cE), cC>>)),
     Block(ItemList(<<Wrap(cB), Wrap(JStr(DetailPath(1))), Wrap(cA)>>))}

Text(s) == JStr(s)

PriceValues ==
    {JInt(1500000), JInt(0), JInt(-5), JBool(TRUE),
     JDec(FALSE, 98, <<"5">>), JDec(TRUE, 0, <<"5">>), JDec(TRUE, 12, <<"0">>),
     JInf(FALSE), JInf(TRUE), JNaN,
     Text(<<"1", "2", "0", "0">>), Text(<<"-", "5">>), Text(<<" ", "+", "7", ".", " ">>),
     Text(<<"9", "8", ".", "5", "man", "yen">>), Text(<<"3", " ", "\t", "man", "yen">>),
     Text(<<"1", ",", "4", "8", "0", ",", "0", "0", "0", "yen">>),
     Text(<<"1", ".", "2", ".", "5", "yen">>), Text(<<"-", "5", "yen">>),
     Text(<<"A", "S", "K">>), Text(<<"I", "n", "f">>), Text(<<"-", "i", "n", "f", "i", "n", "i", "t", "y">>),
     Text(<<"n", "a", "n">>), Text(<<>>)}

PriceBlock(price, withCurrency) ==
    Block(JObj(<< <<"name", JStr(NV)>>, <<"url", JStr(DetailPath(3))>>,
                  <<"offers", IF withCurrency THEN Offers(price)
                              ELSE JObj(<< <<"price", price>> >>)>> >>))

Match(n, blank) ==
    [url |-> DetailPath(n),
     title |-> IF blank THEN <<" ", "\t", " ">>
               ELSE <<"\t", "C", "a", "r", " ", " ">> \o NatToStr(n) \o <<" ">>]

\* n matches whose urls repeat with period mod; every blankEvery-th title is blank
\* (none when blankEvery is 0).
Matches(n, mod, blankEvery) ==
    [i \in 1..n |-> Match(i % mod, blankEvery > 0 /\ i % blankEvery = 0)]

MatchCounts == {0, 1, 2, FallbackCap - 1, FallbackCap, FallbackCap + ExtraAnchors,
                2 * FallbackCap}

MatchInputs == {Matches(n, mod, b) : n \in MatchCounts, mod \in {2, 100}, b \in {0, 3}}

Page(blocks, matches) == [blocks |-> blocks, matches |-> matches]

\* The pages fetched: block sequences of every shape; one list block of candidates
\* that share or lack urls; one block per price value; pages whose blocks yield no
\* listing, with anchors for the fallback.
HtmlInputs ==
    {Page(b, Matches(2, 2, 0)) : b \in BoundedSeq(ShapeBlocks, MaxBlocks)}
    \cup {Page(<<Block(JList(c))>>, <<>>) : c \in BoundedSeq(DedupCandidates, MaxElems)}
    \cup {Page(<<PriceBlock(p, c)>>, <<>>) : p \in PriceValues, c \in BOOLEAN}
    \cup {Page(b, m) : b \in {<<>>, <<Block(cE)>>}, m \in MatchInputs}

----------------------------------------------------------------------------
(* One run of main() *)

Init ==
    /\ pc = "scrape"
    /\ args \in ArgInputs
    /\ html = None
    /\ listings = <<>>
    /\ usedFallback = FALSE
    /\ error = None
    /\ items = <<>>
    /\ out = <<>>

\* A handler that does not catch: the exception ends the run.
Except_Propagates(exc) ==
    /\ listings' = listings
    /\ error' = error
    /\ pc' = "aborted"

\* except Exception as exc: listings = []; error = str(exc)
Except(exc) ==
    /\ listings' = <<>>
    /\ error' = Some(exc[1].msg)
    /\ pc' = "filter"

\* urlopen(...) or resp.read() raises
FetchFails ==
    /\ pc = "scrape"
    /\ \E exc \in FetchErrors : Except(exc)
    /\ UNCHANGED <<args, html, usedFallback, items, out>>

\* html = resp.read().decode(...)
Fetch ==
    /\ pc = "scrape"
    /\ \E h \in HtmlInputs : html' = Some(h)
    /\ pc' = "parse"
    /\ UNCHANGED <<args, listings, usedFallback, error, items, out>>

\* The fallback parser is run whatever the structured parser returned.
Parsed_AlwaysFallsBack(r) ==
    IF r.raised # NoExc
    THEN Except(r.raised)
    ELSE /\ listings' = r.listings
         /\ pc' = "fallback"
         /\ UNCHANGED error

Parsed(r) ==
    IF r.raised # NoExc
    THEN Except(r.raised)
    ELSE /\ listings' = r.listings
         /\ pc' = IF r.listings = <<>> THEN "fallback" ELSE "dedup"
         /\ UNCHANGED error

\* listings = parse_json_ld(html); if not listings: ...
ParseJsonLd ==
    /\ pc = "parse"
    /\ Parsed(parse_json_ld(html[1].blocks))
    /\ UNCHANGED <<args, html, usedFallback, items, out>>

\* listings = parse_fallback_html(html)
ParseFallback ==
    /\ pc = "fallback"
    /\ listings' = parse_fallback_html(html[1].matches)
    /\ usedFallback' = TRUE
    /\ pc' = "dedup"
    /\ UNCHANGED <<args, html, error, items, out>>

\* uniq = {}; ...; return list(uniq.values()); error = None
Deduplicate ==
    /\ pc = "dedup"
    /\ listings' = Dedup(listings)
    /\ error' = None
    /\ pc' = "filter"
    /\ UNCHANGED <<args, html, usedFallback, items, out>>

\* listings = apply_filters(listings, args.max_price, args.region)
ApplyFilters ==
    /\ pc = "filter"
    /\ items' = apply_filters(listings, args.max_price, args.region)
    /\ pc' = "write"
    /\ UNCHANGED <<args, html, listings, usedFallback, error, out>>

\* payload = {...}; args.out.write_text(json.dumps(payload, ...))
WriteOutput ==
    /\ pc = "write"
    /\ out' = Append(out, Payload)
    /\ pc' = "done"
    /\ UNCHANGED <<args, html, listings, usedFallback, error, items>>

Next ==
    \/ FetchFails
    \/ Fetch
    \/ ParseJsonLd
    \/ ParseFallback
    \/ Deduplicate
    \/ ApplyFilters
    \/ WriteOutput

Spec == Init /\ [][Next]_vars
----------------------------------------------------------------------------
(* Properties *)

Fetched == html # None

\* What parse_json_ld returns on the fetched page.
Structured == parse_json_ld(html[1].blocks)

Decodable(blocks) == SelectSeq(blocks, LAMBDA b : b.decodes)

RECURSIVE AllCandidates(_)
\* The candidates of the blocks, in document order.
AllCandidates(blocks) ==
    IF blocks = <<>> THEN <<>>
    ELSE Candidates(Head(blocks).data) \o AllCandidates(Tail(blocks))

\* The natural key: detail_url if non-empty, else title, price_label and location.
SameNaturalKey(a, b) ==
    IF a.detail_url # <<>> /\ b.detail_url # <<>> THEN a.detail_url = b.detail_url
    ELSE IF a.detail_url = <<>> /\ b.detail_url = <<>>
    THEN a.title = b.title /\ a.price_label = b.price_label /\ a.location = b.location
    ELSE FALSE

UniqueKeys(ls) ==
    \A i, j \in 1..Len(ls) : i < j => ~SameNaturalKey(ls[i], ls[j])

Range(f) == {f[i] : i \in DOMAIN f}

AfterScrape == pc \in {"filter", "write", "done"}

AfterFilter == pc \in {"write", "done"}

\* scrape() returned normally, by the structured path
StructuredRun == AfterScrape /\ Fetched /\ error = None /\ ~usedFallback

\* An exception was raised during the fetch (no page was read) or inside parse_json_ld.
ScrapeRaised == AfterScrape /\ (~Fetched \/ Structured.raised # NoExc)

\* The run has ended or can take a step.  ParseJsonLd, ParseFallback and Deduplicate
\* are total (their only guard is pc); the others are asked of the next-state relation.
EndedOrCanStep ==
    \/ pc = "done"
    \/ pc \in {"parse", "fallback", "dedup"}
    \/ ENABLED (FetchFails \/ Fetch \/ ApplyFilters \/ WriteOutput)

\* C1: an exception raised during the fetch or during parsing is caught; the output
\* document is written exactly once, with error non-null, count 0 and no items; no
\* run ends without writing the document, and a non-null error never comes with items.
C1_ErrorContained ==
    /\ Len(out) <= 1
    /\ (pc = "done" => Len(out) = 1)
    /\ EndedOrCanStep
    /\ (ScrapeRaised => /\ error # None
                        /\ listings = <<>>
                        /\ AfterFilter => items = <<>>)
    /\ \A i \in 1..Len(out) :
          /\ ScrapeRaised => out[i].error # None /\ out[i].count = 0 /\ out[i].items = <<>>
          /\ out[i].error # None => out[i].items = <<>>

C1_Witness ==
    /\ pc = "done"
    /\ Fetched
    /\ Structured.raised # NoExc
    /\ Len(out) = 1
    /\ out[1].error # None

\* C2: when every block decodes, a candidate with absent or malformed fields never
\* makes parse_json_ld raise, so the run records no error.
C2_MalformedCandidateNeverRaises ==
    (AfterScrape /\ Fetched /\ Decodable(html[1].blocks) = html[1].blocks) => error = None

\* C3: after deduplication no two listings share a natural key, and neither do two
\* of the final items.
C3_UniqueNaturalKeys ==
    /\ AfterScrape => UniqueKeys(listings)
    /\ AfterFilter => UniqueKeys(items)
    /\ \A i \in 1..Len(out) : UniqueKeys(out[i].items)

C3_Witness ==
    /\ pc = "done"
    /\ StructuredRun
    /\ ~UniqueKeys(Structured.listings)
    /\ Len(out[1].items) >= 2

FirstWithKey(ls, x) == Least({i \in 1..Len(ls) : SameNaturalKey(ls[i], x)})

LastWithKey(ls, x) ==
    CHOOSE i \in 1..Len(ls) :
        /\ SameNaturalKey(ls[i], x)
        /\ \A j \in (i + 1)..Len(ls) : ~SameNaturalKey(ls[j], x)

\* res holds one listing per natural key of ls, each the last of ls with its key,
\* in the order in which the keys first occur in ls.
LastWinsAtFirstSeen(ls, res) ==
    /\ UniqueKeys(res)
    /\ \A i \in 1..Len(ls) : \E j \in 1..Len(res) : SameNaturalKey(res[j], ls[i])
    /\ \A j \in 1..Len(res) :
          /\ \E i \in 1..Len(ls) : SameNaturalKey(ls[i], res[j])
          /\ res[j] = ls[LastWithKey(ls, res[j])]
    /\ \A a, b \in 1..Len(res) :
          a < b => FirstWithKey(ls, res[a]) < FirstWithKey(ls, res[b])

\* C4: the deduplicator returns one listing per distinct natural key, ordered by the
\* first occurrence of each key, and keeps for a key the last listing that has it.
C4_LastWriteWins ==
    [][pc = "dedup" => LastWinsAtFirstSeen(listings, listings')]_vars

C4_Witness ==
    /\ pc = "filter"
    /\ StructuredRun
    /\ Len(listings) >= 2
    /\ \E j \in 2..Len(Structured.listings) :
          /\ SameNaturalKey(Structured.listings[1], Structured.listings[j])
          /\ Structured.listings[1] # Structured.listings[j]
          /\ listings[1] = Structured.listings[j]

\* The two rules of the filter, for the command line of this run.
PriceRule(item) ==
    args.max_price # None => (item.price_yen = None \/ item.price_yen[1] <= args.max_price[1])

RegionRule(item) ==
    (args.region # None /\ args.region[1] # <<>>) =>
        \E k \in 0..(Len(item.location) - Len(args.region[1])) :
            \A n \in 1..Len(args.region[1]) :
                LowerChar(item.location[k + n]) = LowerChar(args.region[1][n])

\* C5: apply_filters returns exactly the listings that satisfy both rules, in their
\* original order.
C5_FilterKeepsExactly ==
    [][pc = "filter" =>
          items' = SelectSeq(listings, LAMBDA item : PriceRule(item) /\ RegionRule(item))]_vars

C5_Witness ==
    /\ pc = "write"
    /\ args.max_price # None
    /\ args.region # None
    /\ args.region[1] # <<>>
    /\ \E i \in 1..Len(listings) : ~PriceRule(listings[i])
    /\ \E i \in 1..Len(listings) : ~RegionRule(listings[i])
    /\ \E i \in 1..Len(items) : items[i].price_yen = None

\* C6: the fallback parser runs only when the structured parser returned no listing;
\* otherwise the result holds structured listings only; the fallback returns at most
\* FallbackCap listings.
C6_FallbackOnlyWhenEmpty ==
    /\ (pc = "fallback" \/ usedFallback) => Structured.listings = <<>>
    /\ (pc = "dedup" /\ usedFallback) => Len(listings) <= FallbackCap
    /\ (pc = "dedup" /\ ~usedFallback) => listings = Structured.listings
    /\ (AfterScrape /\ Fetched /\ error = None /\ Structured.listings # <<>>) =>
           /\ ~usedFallback
           /\ Range(listings) \subseteq Range(Structured.listings)

C6_Witness ==
    /\ pc = "dedup"
    /\ usedFallback
    /\ Len(html[1].matches) > FallbackCap
    /\ Len(listings) = FallbackCap

\* C7: a price_yen that is present is a non-negative integer.
C7_PriceNonNegative ==
    \A i \in 1..Len(listings) :
        listings[i].price_yen # None => listings[i].price_yen[1] >= 0

RECURSIVE ConcatOfBlocks(_)
\* The listings of each block parsed on its own, concatenated in document order.
ConcatOfBlocks(blocks) ==
    IF blocks = <<>> THEN <<>>
    ELSE parse_json_ld(<<Head(blocks)>>).listings \o ConcatOfBlocks(Tail(blocks))

NoBlockRaises(blocks) ==
    \A i \in 1..Len(blocks) : parse_json_ld(<<blocks[i]>>).raised = NoExc

\* C8: blocks that fail to decode are skipped and raise nothing: parse_json_ld
\* returns the listings of the blocks that decode, in document order, as if the
\* others were not there.
C8_BadBlocksSkipped ==
    /\ (pc \in {"fallback", "dedup"} /\ ~usedFallback) =>
           /\ NoBlockRaises(Decodable(html[1].blocks))
           /\ listings = ConcatOfBlocks(Decodable(html[1].blocks))
    /\ (AfterScrape /\ Fetched /\ error # None) =>
           ~NoBlockRaises(Decodable(html[1].blocks))

C8_Witness ==
    /\ pc = "dedup"
    /\ ~usedFallback
    /\ Len(html[1].blocks) = 2
    /\ ~html[1].blocks[1].decodes
    /\ Len(listings) >= 2

Titled(ls) == \A i \in 1..Len(ls) : Strip(ls[i].title) # <<>>

\* C9: every listing of the final items has a title that is non-empty after
\* trimming; candidates without a name or with a blank one never reach the output.
C9_TitlesNonEmpty ==
    /\ Titled(listings)
    /\ Titled(items)
    /\ \A i \in 1..Len(out) : Titled(out[i].items)

C9_Witness ==
    /\ pc = "done"
    /\ StructuredRun
    /\ \E i \in 1..Len(AllCandidates(Decodable(html[1].blocks))) :
          LET c == AllCandidates(Decodable(html[1].blocks))[i]
          IN  IsDict(c) /\ Has(c, "name") /\ TitleOf(c) = <<>>
    /\ Len(out[1].items) >= 1

\* The candidates that yield a listing, in document order.
Yielding(blocks) ==
    SelectSeq(AllCandidates(Decodable(blocks)), LAMBDA c : ~ItemResult(c).skip)

LacksUrl(c) == ~Truthy(Get(c, "url"))

AtBase(ls) == {i \in 1..Len(ls) : ls[i].detail_url = BASE_URL}

Greatest(S) == CHOOSE i \in S : \A j \in S : j <= i

\* C10: every listing has a non-empty detail_url, so deduplication keys on
\* detail_url alone; the candidates without url all get the base origin, share one
\* key, and at most one of them, the last, survives deduplication.
C10_UrlNeverEmpty ==
    /\ \A i \in 1..Len(listings) :
          /\ listings[i].detail_url # <<>>
          /\ DedupKey(listings[i]) = listings[i].detail_url
    /\ StructuredRun =>
          LET cands == Yielding(html[1].blocks)
              pre == Structured.listings
          IN  /\ \A i \in 1..Len(cands) : LacksUrl(cands[i]) => pre[i].detail_url = BASE_URL
              /\ Cardinality(AtBase(listings)) <= 1
              /\ (\E i \in 1..Len(cands) : LacksUrl(cands[i])) =>
                     /\ AtBase(listings) # {}
                     /\ \A j \in AtBase(listings) : listings[j] = pre[Greatest(AtBase(pre))]

C10_Witness ==
    /\ pc = "filter"
    /\ StructuredRun
    /\ \E i, j \in 1..Len(Yielding(html[1].blocks)) :
          /\ i < j
          /\ LacksUrl(Yielding(html[1].blocks)[i])
          /\ LacksUrl(Yielding(html[1].blocks)[j])
          /\ Structured.listings[i].title # Structured.listings[j].title
          /\ Structured.listings[i].price_label # Structured.listings[j].price_label
          /\ Structured.listings[i].location # Structured.listings[j].location
          /\ \A k \in (j + 1)..Len(Yielding(html[1].blocks)) :
                ~LacksUrl(Yielding(html[1].blocks)[k])
          /\ Structured.listings[j] \in Range(listings)
          /\ Structured.listings[i] \notin Range(listings)
====
